---- MODULE Spec2Model ----
(***************************************************************************)
(* Model of stk::mesh::impl::BucketRepository: the per-rank ordered lists  *)
(* of buckets, the family chains, declare_bucket, destroy_bucket,          *)
(* remove_entity and internal_sort_bucket_entities.                        *)
(*                                                                         *)
(* The repository state is threaded through the operators below as a       *)
(* record s with the fields                                                *)
(*   heap  : bucket address -> the Bucket stored in that malloc block      *)
(*   lists : entity rank -> m_buckets[rank], a sequence of addresses       *)
(*   bkt, ord : the back-reference (bucket, ordinal) of every Entity       *)
(*   log   : the slot operations performed by the running call, in order   *)
(*   err   : the exception the running call has thrown ("none" if none)    *)
(*   ret   : the Bucket* the running call returns (declare_bucket)         *)
(*   grow_fails : whether growing a rank's vector fails during the call    *)
(*   m_nil_bucket : the address of the nil bucket, NULL before it is made  *)
(* The fields of the mesh meta data, which every declare_bucket is handed, *)
(* are fixed when the repository is constructed.                           *)
(* Each action of the next-state relation runs one call on the current     *)
(* state and commits the record it ends with.                              *)
(***************************************************************************)
EXTENDS Integers, Sequences, FiniteSets, TLC

VARIABLES heap, lists, bkt, ord, log, err, ret, op, fields, m_nil_bucket

vars == <<heap, lists, bkt, ord, log, err, ret, op, fields, m_nil_bucket>>

\* ---------------------------------------------------------------- bounds
NumEntities == 3
NumRanks == 1
NumParts == 2
\* m_bucket_capacity, the constructor's bucket_capacity argument
bucket_capacity == 2
\* buckets a caller may hold declared and not yet filled
MaxUnfilled == 1
\* number of fields of the mesh meta data
NumFields == 2
\* number of blocks malloc can hand out before it returns NULL
MaxBuckets == NumEntities + 2

\* width in bits of the unsigned family count of a key (32 in the source)
CounterBits == 1

\* const unsigned max = ~(0u): the largest family count
max == 2 ^ CounterBits - 1

NULL == 0

\* enum { BYTE_ALIGN = 16 }
BYTE_ALIGN == 16

\* sizeof(Entity*)
sizeof_entity_ptr == 8

Entities == 1..NumEntities
Ranks == 0..(NumRanks - 1)
\* The addresses a block can have: one for every key a bucket can be given.
Addrs == 1..(NumRanks * (2 ^ NumParts) * MaxBuckets)
Slots == 0..(bucket_capacity - 1)
\* The address of the block the nil bucket is given.
NilBlock == NumRanks * (2 ^ NumParts) * MaxBuckets + 1

\* The part-ordinal arrays a caller passes: sorted and duplicate free.
PartOrds ==
  { p \in UNION { [1..n -> 1..NumParts] : n \in 0..NumParts } :
      \A a, b \in DOMAIN p : a < b => p[a] < p[b] }

Min(a, b) == IF a < b THEN a ELSE b

\* F applied to the value of e: e is computed once, however often F uses it.
Bind(e, F(_)) == CHOOSE r \in { F(x) : x \in {e} } : TRUE

\* ------------------------------------------------------------ the bucket
\* An unallocated block.
FreeBlock ==
  [ alloc |-> FALSE, rank |-> 0, key |-> <<>>, size |-> 0, capacity |-> 0,
    ent |-> [i \in Slots |-> NULL], data |-> [i \in Slots |-> 0], fam |-> NULL,
    field_map |-> <<>> ]

\* Bucket( mesh, rank, key, alloc_size, capacity, field_map, entity_array ):
\* an empty bucket whose slots hold no handle and no field data.
NewBucket(rank, key, field_map) ==
  [ alloc |-> TRUE, rank |-> rank, key |-> key, size |-> 0,
    capacity |-> bucket_capacity,
    ent |-> [i \in Slots |-> NULL], data |-> [i \in Slots |-> 0], fam |-> NULL,
    field_map |-> field_map ]

\* Key layout: { part_count + 1 , { part_ordinals } , family_count }
MakeKey(part_ord, count) == <<Len(part_ord) + 1>> \o part_ord \o <<count>>

\* family_count = key[ key[0] ]   (C index key[0] is TLA+ index key[1] + 1)
KeyCount(key) == key[key[1] + 1]

KeyParts(key) == SubSeq(key, 2, key[1])

\* One entry of the log of slot operations.
Ev(name, b, i, e, sb, si) ==
  [ ev |-> name, b |-> b, i |-> i, e |-> e, sb |-> sb, si |-> si ]

Throw(s, what) == [s EXCEPT !.err = what]

\* ------------------------------------------------- key order and search
\* BucketLess: compare the keys word by word up to the shorter key's last
\* index; the first word is the length, the last the family count.
RECURSIVE KeyLessFrom(_, _, _, _)
KeyLessFrom(lhs, rhs, p, last) ==
  IF p # last /\ lhs[p] = rhs[p]
  THEN KeyLessFrom(lhs, rhs, p + 1, last)
  ELSE lhs[p] < rhs[p]

bucket_key_less(lhs, rhs) ==
  KeyLessFrom(lhs, rhs, 1, 1 + Min(lhs[1], rhs[1]))

\* bucket_part_equal: same length and same part ordinals; the family count
\* is not compared.
bucket_part_equal(lhs, rhs) ==
  /\ lhs[1] = rhs[1]
  /\ \A p \in 2..lhs[1] : lhs[p] = rhs[p]

\* std::lower_bound over bucket_set with BucketLess: the binary search,
\* positions counted from 1, Len + 1 being end().
RECURSIVE LowerBoundFrom(_, _, _, _, _)
LowerBoundFrom(s, v, key, first, len) ==
  IF len = 0 THEN first
  ELSE LET half == len \div 2
           mid  == first + half
       IN IF bucket_key_less(s.heap[v[mid]].key, key)
          THEN LowerBoundFrom(s, v, key, mid + 1, len - half - 1)
          ELSE LowerBoundFrom(s, v, key, first, half)

lower_bound(s, v, key) == LowerBoundFrom(s, v, key, 1, Len(v))

\* ------------------------------------------------------ BucketImpl calls
\* The family pointer of the first bucket names the family's last bucket;
\* the family pointer of every other bucket names the first bucket.
first_bucket_in_family(s, b) ==
  IF KeyCount(s.heap[b].key) = 0 THEN b ELSE s.heap[b].fam

last_bucket_in_family(s, b) == s.heap[first_bucket_in_family(s, b)].fam

set_first_bucket_in_family(s, b, first) == [s EXCEPT !.heap[b].fam = first]

set_last_bucket_in_family(s, b, last) ==
  [s EXCEPT !.heap[first_bucket_in_family(s, b)].fam = last]

replace_entity(s, b, i, e) ==
  [s EXCEPT !.heap[b].ent[i] = e,
            !.log = Append(@, Ev("replace_entity", b, i, e, 0, 0))]

decrement_size(s, b) ==
  [s EXCEPT !.heap[b].size = @ - 1,
            !.log = Append(@, Ev("decrement_size", b, 0, 0, 0, 0))]

increment_size(s, b) ==
  [s EXCEPT !.heap[b].size = @ + 1,
            !.log = Append(@, Ev("increment_size", b, 0, 0, 0, 0))]

\* replace_fields: every field's bytes of slot (k_src, i_src) are copied
\* to slot (k_dst, i_dst).
copy_fields_mut(s, k_dst, i_dst, k_src, i_src) ==
  [s EXCEPT !.heap[k_src].data[i_src] = s.heap[k_dst].data[i_dst],
            !.log = Append(@, Ev("copy_fields", k_dst, i_dst, 0, k_src, i_src))]

copy_fields(s, k_dst, i_dst, k_src, i_src) ==
  [s EXCEPT !.heap[k_dst].data[i_dst] = s.heap[k_src].data[i_src],
            !.log = Append(@, Ev("copy_fields", k_dst, i_dst, 0, k_src, i_src))]

\* EntityRepository::change_entity_bucket: the entity's back-reference.
change_entity_bucket(s, b, e, i) ==
  [s EXCEPT !.bkt[e] = b, !.ord[e] = i,
            !.log = Append(@, Ev("change_entity_bucket", b, i, e, 0, 0))]

\* The relocation hook: it refreshes relation data owned by the caller and
\* changes nothing of the repository.
internal_propagate_relocation(s, e) ==
  [s EXCEPT !.log =
     Append(@, IF s.bkt[e] = NULL THEN Ev("propagate_relocation", NULL, 0, e, NULL, 0)
               ELSE Ev("propagate_relocation", s.bkt[e], s.ord[e], e,
                       s.heap[s.bkt[e]].ent[s.ord[e]],
                       s.heap[s.bkt[e]].data[s.ord[e]]))]

\* ------------------------------------------------------ field descriptors
\* EntityKey( rank , part ordinal ), the key a restriction is bound to; the
\* keys in their order, the rank first and then the ordinal.
AllKeys ==
  [n \in 1..(NumRanks * NumParts) |->
     <<(n - 1) \div NumParts, ((n - 1) % NumParts) + 1>>]

entity_key_less(a, b) == a[1] < b[1] \/ (a[1] = b[1] /\ a[2] < b[2])

\* The dimensions a restriction can give. A field has rank 0 or 1, so of a
\* restriction's stride array only stride[0] is read; it stands for the array.
Dimensions == {3, 4}

\* field.restrictions(): sorted by key, at most one restriction for a key.
RestrictionLists ==
  { SelectSeq([n \in DOMAIN AllKeys |-> [key |-> AllKeys[n], stride |-> d[n]]],
              LAMBDA x : x.stride # 0) :
      d \in [DOMAIN AllKeys -> Dimensions \cup {0}] }

\* A FieldBase: rank(), data_traits().stride_of and restrictions().
FieldDescs ==
  [ field_rank : {0, 1}, stride_of : {4}, restrictions : RestrictionLists ]

\* The field sets of a mesh meta data, in registration order.
FieldSets == [1..NumFields -> FieldDescs]

\* The fields of the mesh the callers work on: the first has no restriction,
\* every other one is restricted to part 1 of rank 0 with dimension 3.
MeshFields ==
  [f \in 1..NumFields |->
     [ field_rank |-> 1, stride_of |-> 4,
       restrictions |-> IF f = 1 THEN <<>>
                        ELSE <<[key |-> <<0, 1>>, stride |-> 3]>> ]]

\* ------------------------------------------------------- initial state
\* The repository after construction: no bucket, no entity placed.
InitRepository ==
  /\ heap = [a \in Addrs \cup {NilBlock} |-> FreeBlock]
  /\ m_nil_bucket = NULL
  /\ lists = [r \in Ranks |-> <<>>]
  /\ bkt = [e \in Entities |-> NULL]
  /\ ord = [e \in Entities |-> 0]
  /\ log = <<>>
  /\ err = "none"
  /\ ret = NULL
  /\ op = [ name |-> "init", b |-> 0, i |-> 0, e |-> 0, rank |-> 0, parts |-> <<>>,
           after_resort |-> FALSE, relations |-> <<>> ]

Init == fields = MeshFields /\ InitRepository

\* A repository of a mesh with any field set.
InitLayout == fields \in FieldSets /\ InitRepository

\* ------------------------------------------------------------ allocation
\* The address of the block malloc hands out is immaterial to the code, so
\* the block for a bucket is named after the bucket's rank and key; when that
\* block is taken the lowest free one is handed out.
RECURSIVE PartMask(_, _)
PartMask(key, p) ==
  IF p > key[1] THEN 0 ELSE 2 ^ (key[p] - 1) + PartMask(key, p + 1)

BlockOf(rank, key) ==
  (rank * (2 ^ NumParts) + PartMask(key, 2)) * MaxBuckets + KeyCount(key) + 1

\* local_malloc: a free block, or NULL when malloc has no block left.
local_malloc(s, rank, key) ==
  IF Cardinality({ a \in Addrs : s.heap[a].alloc }) >= MaxBuckets THEN NULL
  ELSE IF KeyCount(key) < MaxBuckets /\ ~s.heap[BlockOf(rank, key)].alloc
  THEN BlockOf(rank, key)
  ELSE CHOOSE a \in Addrs : ~s.heap[a].alloc /\ \A c \in Addrs : c < a => s.heap[c].alloc

\* bucket->~Bucket(); std::free( bucket );
free_bucket(s, b) ==
  [s EXCEPT !.heap[b] = FreeBlock,
            !.log = Append(@, Ev("free", b, 0, 0, 0, 0))]

\* bucket_set.insert( ik , bucket ) and bucket_set.erase( ik )
vector_insert(v, ik, b) == SubSeq(v, 1, ik - 1) \o <<b>> \o SubSeq(v, ik, Len(v))

vector_erase(v, ik) == SubSeq(v, 1, ik - 1) \o SubSeq(v, ik + 1, Len(v))

\* ---------------------------------------------------- declare_nil_bucket
\* const unsigned bad_entity_rank = ~0u: every bit set, written as the
\* 32-bit signed integer with the same bits; it is the rank of no list.
bad_entity_rank == -1

\* if (m_nil_bucket == NULL)
nil_bucket_missing_mut(s) == TRUE

nil_bucket_missing(s) == s.m_nil_bucket = NULL

\* Field map gives NULL for all field data.
nil_field_map ==
  [i \in 1..(NumFields + 1) |->
     [m_base |-> 0, m_size |-> 0, m_stride |-> IF i <= NumFields THEN 0 ELSE NULL]]

\* Bucket( m_mesh , bad_entity_rank , new_key , alloc_size , 0 , field_map ,
\* NULL ) with the key { 1 , 0 }, then set_bucket_family_pointer( bucket ).
\* Either local_malloc throws when malloc has no block left.
declare_nil_bucket(s) ==
  IF nil_bucket_missing(s)
  THEN IF Cardinality({ a \in Addrs : s.heap[a].alloc }) >= MaxBuckets
       THEN Throw(s, "runtime_error")
       ELSE [s EXCEPT
               !.heap[NilBlock] =
                  [NewBucket(bad_entity_rank, MakeKey(<<>>, 0), nil_field_map)
                     EXCEPT !.capacity = 0, !.fam = NilBlock],
               !.log = Append(@, Ev("new", NilBlock, 0, 0, NULL, 0)),
               !.m_nil_bucket = NilBlock]
  ELSE s

\* -------------------------------------------------------- destroy_bucket
\* The guard of destroy_bucket( entity_rank , bucket_to_be_deleted ).
destroy_refused_mut(s, b) == b # s.heap[first_bucket_in_family(s, b)].fam

destroy_refused(s, b) ==
  \/ 0 # s.heap[b].size
  \/ b # s.heap[first_bucket_in_family(s, b)].fam

\* first != bucket_to_be_deleted
not_first_bucket_mut(first, b) == FALSE

not_first_bucket(first, b) == first # b

\* The current last bucket of a family is erased from the rank's list; the
\* previous bucket of the list becomes the family's last bucket.
destroy_bucket(s, entity_rank, b) ==
  LET bucket_set == s.lists[entity_rank]
      first      == first_bucket_in_family(s, b)
      ik         == lower_bound(s, bucket_set, s.heap[b].key)
  IN IF destroy_refused(s, b) THEN Throw(s, "logic_error")
     ELSE IF ik = Len(bucket_set) + 1 THEN Throw(s, "logic_error")
     ELSE IF b # bucket_set[ik] THEN Throw(s, "logic_error")
     ELSE Bind([s EXCEPT !.lists[entity_rank] = vector_erase(bucket_set, ik)],
            LAMBDA s1 :
              IF not_first_bucket(first, b)
              THEN IF ik = 1 THEN Throw(s1, "logic_error")
                   ELSE Bind(set_last_bucket_in_family(s1, first, bucket_set[ik - 1]),
                          LAMBDA s2 :
                            IF 0 = s2.heap[s2.heap[first].fam].size
                            THEN Throw(s2, "logic_error")
                            ELSE free_bucket(s2, b))
              ELSE free_bucket(s1, b))

\* ---------------------------------------------------------- field layout
align_mut(nb) == nb

align(nb) ==
  LET gap == nb % BYTE_ALIGN
  IN IF gap # 0 THEN nb + BYTE_ALIGN - gap ELSE nb

\* static const FieldBase::Restriction empty: bound to no key, stride zero.
empty_field_restriction == [key |-> <<0, 0>>, stride |-> 0]

\* std::lower_bound( ibeg , iend , key , FieldRestrictionLess() ): the binary
\* search, positions counted from 1, Len + 1 being end().
RECURSIVE RestrictionLowerBound(_, _, _, _)
RestrictionLowerBound(dim_map, key, first, len) ==
  IF len = 0 THEN first
  ELSE LET half == len \div 2
           mid  == first + half
       IN IF entity_key_less(dim_map[mid].key, key)
          THEN RestrictionLowerBound(dim_map, key, mid + 1, len - half - 1)
          ELSE RestrictionLowerBound(dim_map, key, first, half)

\* Compare< MaximumFieldDimension >::not_equal( ibeg->stride , dim->stride )
stride_not_equal_mut(a, b) == FALSE

stride_not_equal(a, b) == a # b

\* ibeg->key == key
restriction_bound_to_mut(r, key) == r.key[2] = key[2]

restriction_bound_to(r, key) == r.key = key

\* The loop of dimension(): part i of part_ord (counted from 0), the search
\* restarting at ibeg, dim the restriction found so far. The result is the
\* restriction, or the two parts whose restrictions are incompatible.
RECURSIVE dimension_from(_, _, _, _, _, _)
dimension_from(dim_map, etype, part_ord, i, ibeg, dim) ==
  LET iend == Len(dim_map) + 1
  IN IF i < Len(part_ord) /\ iend # ibeg
     THEN LET key == <<etype, part_ord[i + 1]>>
              ib  == RestrictionLowerBound(dim_map, key, ibeg, iend - ibeg)
          IN IF iend # ib /\ restriction_bound_to(dim_map[ib], key)
             THEN LET d == IF dim = empty_field_restriction THEN dim_map[ib] ELSE dim
                  IN IF stride_not_equal(dim_map[ib].stride, d.stride)
                     THEN [ throws |-> TRUE, dim |-> d,
                            p_old |-> dim_map[ib].key[2], p_new |-> d.key[2] ]
                     ELSE dimension_from(dim_map, etype, part_ord, i + 1, ib, d)
             ELSE dimension_from(dim_map, etype, part_ord, i + 1, ib, dim)
     ELSE [ throws |-> FALSE, dim |-> dim, p_old |-> 0, p_new |-> 0 ]

dimension(field, etype, part_ord) ==
  dimension_from(field.restrictions, etype, part_ord, 0, 1, empty_field_restriction)

\* Lines 378-390: the bytes one slot of the field takes.
value_size_of(field, dim) ==
  IF dim.stride # 0
  THEN field.stride_of * (IF field.field_rank # 0 THEN dim.stride ELSE 1)
  ELSE 0

\* value_size * m_bucket_capacity: the bytes of a field's column.
column_bytes_mut(value_size) == value_size

column_bytes(value_size) == value_size * bucket_capacity

\* Lines 375-400: the entries of the fields from field i on and the closing
\* entry; m holds the entries made so far and value_offset the next base.
\* The log entry of a field has the slot size and the base it is given.
RECURSIVE field_map_entries(_, _, _, _, _, _, _)
field_map_entries(s, field_set, rank, part_ord, i, m, value_offset) ==
  IF i > Len(field_set)
  THEN [ s |-> s,
         field_map |-> Append(m, [m_base |-> value_offset, m_size |-> 0, m_stride |-> NULL]) ]
  ELSE Bind(dimension(field_set[i], rank, part_ord),
         LAMBDA d :
           IF d.throws
           THEN [ s |-> Throw([s EXCEPT !.log =
                                 Append(@, Ev("incompatible", 0, i, 0, d.p_old, d.p_new))],
                              "runtime_error"),
                  field_map |-> <<>> ]
           ELSE Bind(value_size_of(field_set[i], d.dim),
                  LAMBDA value_size :
                    field_map_entries(
                      [s EXCEPT !.log = Append(@, Ev("dimension", 0, i, 0,
                                                     value_size, value_offset))],
                      field_set, rank, part_ord, i + 1,
                      Append(m, [m_base |-> value_offset, m_size |-> value_size,
                                 m_stride |-> d.dim.stride]),
                      value_offset + align(column_bytes(value_size)))))

\* Lines 367-401: the family's field map does not exist, create it.
new_field_map(s, field_set, rank, part_ord) ==
  field_map_entries(s, field_set, rank, part_ord, 1, <<>>,
                    align(sizeof_entity_ptr * bucket_capacity))

\* -------------------------------------------------------- declare_bucket
\* last_bucket->size() < cap
last_has_space(s, last_bucket) ==
  s.heap[last_bucket].size < s.heap[last_bucket].capacity

\* key[ key[0] ] = 1 + last_count
next_family_count_mut(last_count) == last_count

next_family_count(last_count) == 1 + last_count

\* The position handed to bucket_set.insert: the lower bound of the search key.
insert_position(ik) == ik

\* Lines 405-450: the required bucket does not exist; allocate it, chain it
\* into its family and insert it in the rank's list. The log entry has the
\* bytes the block is given for handles and field data. bucket_set.insert
\* throws std::bad_alloc when the vector has to grow and cannot.
allocate_bucket(s, rank, key, ik, last_bucket, field_map) ==
  LET bucket == local_malloc(s, rank, key)
  IN IF bucket = NULL THEN Throw(s, "runtime_error")
     ELSE Bind([s EXCEPT !.heap[bucket] = NewBucket(rank, key, field_map),
                         !.log = Append(@, Ev("new", bucket, 0, 0, last_bucket,
                                                 field_map[Len(field_map)].m_base))],
            LAMBDA s1 :
              LET first_bucket == IF last_bucket # NULL
                                  THEN first_bucket_in_family(s1, last_bucket)
                                  ELSE bucket
              IN Bind(set_first_bucket_in_family(s1, bucket, first_bucket),
                   LAMBDA s2 :
                     Bind(set_last_bucket_in_family(s2, first_bucket, bucket),
                       LAMBDA s3 :
                         IF s3.grow_fails THEN Throw(s3, "bad_alloc")
                         ELSE [s3 EXCEPT !.lists[rank] =
                                           vector_insert(@, insert_position(ik), bucket),
                                         !.ret = bucket])))

\* field_map = last_bucket->m_bucketImpl.get_field_map()
get_field_map_mut(s, last_bucket) ==
  [i \in 1..(NumFields + 1) |-> [m_base |-> 0, m_size |-> 0, m_stride |-> NULL]]

get_field_map(s, last_bucket) == s.heap[last_bucket].field_map

\* ik != bucket_set.begin() && bucket_part_equal( ik[-1]->key() , key )
bucket_family_exists_mut(s, bucket_set, ik, key) == ik # 1

bucket_family_exists(s, bucket_set, ik, key) ==
  ik # 1 /\ bucket_part_equal(s.heap[bucket_set[ik - 1]].key, key)

declare_bucket(s, rank, part_ord, field_set) ==
  LET bucket_set  == s.lists[rank]
      key         == MakeKey(part_ord, max)
      ik          == lower_bound(s, bucket_set, key)
      last_bucket == IF bucket_family_exists(s, bucket_set, ik, key)
                     THEN bucket_set[ik - 1] ELSE NULL
  IN IF last_bucket = NULL
     THEN IF local_malloc(s, rank, MakeKey(part_ord, 0)) = NULL
          THEN Throw(s, "runtime_error")
          ELSE Bind(new_field_map(s, field_set, rank, part_ord),
                 LAMBDA m :
                   IF m.s.err # "none" THEN m.s
                   ELSE allocate_bucket(m.s, rank, MakeKey(part_ord, 0), ik, NULL,
                                        m.field_map))
     ELSE IF 0 = s.heap[last_bucket].size THEN Throw(s, "logic_error")
     ELSE LET last_count == KeyCount(s.heap[last_bucket].key)
          IN IF last_has_space(s, last_bucket)
             THEN [s EXCEPT !.ret = last_bucket]
             ELSE IF last_count < max
             THEN allocate_bucket(s, rank, MakeKey(part_ord, next_family_count(last_count)),
                                  ik, last_bucket, get_field_map(s, last_bucket))
             ELSE Throw(s, "logic_error")

\* --------------------------------------------------------- remove_entity
\* last != k || k->size() != i + 1
fill_the_gap_mut(s, last, k, i) == last # k

fill_the_gap(s, last, k, i) == last # k \/ s.heap[k].size # i + 1

\* The slot of the last bucket whose entity fills the gap.
last_slot_mut(s, last) == 0

last_slot(s, last) == s.heap[last].size - 1

\* The bucket that gives up its last slot: last->m_bucketImpl.decrement_size()
shrunk_bucket_mut(last, k) == k

shrunk_bucket(last, k) == last

\* Lines 620-634: the last entity of the last bucket moves into slot i of k.
remove_fill_mut(s, k, i, last) ==
  LET entity == s.heap[last].ent[last_slot(s, last)]
  IN Bind(copy_fields(s, k, i, last, last_slot(s, last)),
       LAMBDA a :
         change_entity_bucket(
           internal_propagate_relocation(replace_entity(a, k, i, entity), entity),
           k, entity, i))

remove_fill(s, k, i, last) ==
  LET entity == s.heap[last].ent[last_slot(s, last)]
  IN Bind(copy_fields(s, k, i, last, last_slot(s, last)),
       LAMBDA a :
         internal_propagate_relocation(
           change_entity_bucket(replace_entity(a, k, i, entity), k, entity, i),
           entity))

\* 0 == last->size()
last_is_empty_mut(s, last) == FALSE

last_is_empty(s, last) == 0 = s.heap[last].size

\* last->m_bucketImpl.replace_entity( last->size() , NULL ): the slot given up
vacated_slot_mut(s, last) == 0

vacated_slot(s, last) == s.heap[last].size

remove_entity(s, k, i) ==
  LET entity_rank == s.heap[k].rank
      last        == last_bucket_in_family(s, k)
  IN Bind(IF fill_the_gap(s, last, k, i) THEN remove_fill(s, k, i, last) ELSE s,
       LAMBDA s1 :
         Bind(decrement_size(s1, shrunk_bucket(last, k)),
           LAMBDA s2 :
             Bind(replace_entity(s2, last, vacated_slot(s2, last), NULL),
               LAMBDA s3 :
                 IF last_is_empty(s3, last)
                 THEN destroy_bucket(s3, entity_rank, last)
                 ELSE s3)))

\* -------------------------------------------------------------- actions
\* The state a call starts from: nothing logged, thrown or returned yet.
Current ==
  [ heap |-> heap, lists |-> lists, bkt |-> bkt, ord |-> ord,
    log |-> <<>>, err |-> "none", ret |-> NULL, grow_fails |-> FALSE,
    m_nil_bucket |-> m_nil_bucket ]

\* The same, for a call during which a rank's vector of buckets is at its
\* capacity and there is no memory for a larger one.
CurrentNoGrowth == [Current EXCEPT !.grow_fails = TRUE]

Commit(s) ==
  /\ heap' = s.heap
  /\ lists' = s.lists
  /\ bkt' = s.bkt
  /\ ord' = s.ord
  /\ log' = s.log
  /\ err' = s.err
  /\ ret' = s.ret
  /\ fields' = fields
  /\ m_nil_bucket' = s.m_nil_bucket

\* The call an action runs, for a resort whether it follows a resort, and
\* for the relocation hook run on its own the relations of its entity.
Call(name, b, i, e, rank, parts) ==
  [ name |-> name, b |-> b, i |-> i, e |-> e, rank |-> rank, parts |-> parts,
    after_resort |-> (name = "resort" /\ op.name = "resort"), relations |-> <<>> ]

Listed(s) == UNION { { s.lists[r][p] : p \in 1..Len(s.lists[r]) } : r \in Ranks }

\* The caller places an entity that is in no bucket: declare_bucket, then
\* the returned bucket's next slot receives the entity's field data, its
\* handle and its back-reference, and the bucket grows by one.
fill_next_slot(s, b, e) ==
  LET i == s.heap[b].size
  IN increment_size(
       replace_entity(
         change_entity_bucket([s EXCEPT !.heap[b].data[i] = e], b, e, i),
         b, i, e),
       b)

Insert(e, rank, part_ord) ==
  /\ bkt[e] = NULL
  /\ op' = Call("insert", 0, 0, e, rank, part_ord)
  /\ \E s1 \in { declare_bucket(Current, rank, part_ord, fields) } :
       IF s1.err # "none" THEN Commit(s1)
       ELSE Commit(fill_next_slot(s1, s1.ret, e))

\* The caller drops the back-reference of the entity it has removed.
release_entity(s, e) == [s EXCEPT !.bkt[e] = NULL, !.ord[e] = 0]

\* remove_entity( k , i ) on a live slot of a family whose last bucket holds
\* an entity: with an empty last bucket the code reads slot size() - 1 of an
\* empty bucket, which no caller may ask for.
Remove(k, i) ==
  /\ k \in Listed(Current)
  /\ i < heap[k].size
  /\ heap[last_bucket_in_family(Current, k)].size > 0
  /\ op' = Call("remove_entity", k, i, heap[k].ent[i], heap[k].rank, KeyParts(heap[k].key))
  /\ Commit(release_entity(remove_entity(Current, k, i), heap[k].ent[i]))

\* ------------------------------------------ internal_sort_bucket_entities
\* EntityLess: entities are ordered by their key; entity e has key e.
EntityLess(a, b) == a < b

\* while ( ek < buckets.size() && ik_vacant != buckets[ek] ) { ++ek ; }
RECURSIVE family_end(_, _, _)
family_end(buckets, ik_vacant, ek) ==
  IF ek < Len(buckets) /\ ik_vacant # buckets[ek + 1]
  THEN family_end(buckets, ik_vacant, ek + 1)
  ELSE ek

\* The slots b[0 .. b.size()-1] of buckets[bk .. ek-1], in storage order.
RECURSIVE family_slots(_, _, _, _)
family_slots(s, buckets, ik, ek) ==
  IF ik = ek THEN <<>>
  ELSE LET b == buckets[ik + 1]
       IN [i \in 1..s.heap[b].size |-> <<b, i - 1>>] \o family_slots(s, buckets, ik + 1, ek)

\* ik_vacant->capacity() <= ie_vacant
scratch_needed(s, ik_vacant, ie_vacant) == s.heap[ik_vacant].capacity <= ie_vacant

\* current != *j
slot_mismatch_mut(current, target) == current # target /\ current # NULL

slot_mismatch_always(current, target) == TRUE

slot_mismatch(current, target) == current # target

\* Lines 569-574: the slot's occupant, if any, moves to the vacant slot.
sort_move_current(c, b, i, current) ==
  IF current # NULL
  THEN Bind(copy_fields(c.s, c.ik_vacant, c.ie_vacant, b, i),
         LAMBDA a :
           replace_entity(
             change_entity_bucket(a, c.ik_vacant, current, c.ie_vacant),
             c.ik_vacant, c.ie_vacant, current))
  ELSE c.s

\* Lines 576-584: the slot of the required entity becomes the vacant slot
\* and the required entity moves to slot i of b.
sort_move_target(s1, b, i, target) ==
  LET ik_vacant == s1.bkt[target]
      ie_vacant == s1.ord[target]
  IN Bind(replace_entity(s1, ik_vacant, ie_vacant, NULL),
       LAMBDA s2 :
         Bind(copy_fields(s2, b, i, ik_vacant, ie_vacant),
           LAMBDA s3 :
             [ s |-> internal_propagate_relocation(
                       replace_entity(change_entity_bucket(s3, b, target, i), b, i, target),
                       target),
               ik_vacant |-> ik_vacant, ie_vacant |-> ie_vacant,
               change_this_family |-> TRUE ]))

\* if ( change_this_family ), for a slot that holds its sorted occupant
propagate_unmoved_mut(c) == FALSE

propagate_unmoved(c) == c.change_this_family

\* Lines 565-594: the body of the scan for slot i of bucket b, whose sorted
\* occupant is target. c holds the state, the vacant slot and
\* change_this_family. The log has an entry for the slot the scan is at.
sort_slot(c, b, i, target) ==
  LET current == c.s.heap[b].ent[i]
      v       == [c EXCEPT !.s.log = Append(@, Ev("scan", b, i, target, 0, 0))]
  IN IF slot_mismatch(current, target)
     THEN Bind(sort_move_current(v, b, i, current),
            LAMBDA s1 : sort_move_target(s1, b, i, target))
     ELSE IF propagate_unmoved(v)
     THEN [v EXCEPT !.s = internal_propagate_relocation(v.s, target)]
     ELSE v

RECURSIVE sort_scan(_, _, _, _)
sort_scan(c, slots, entities, j) ==
  IF j > Len(slots) THEN c
  ELSE Bind(sort_slot(c, slots[j][1], slots[j][2], entities[j]),
         LAMBDA n : sort_scan(n, slots, entities, j + 1))

\* if ( b_scratch )
scratch_created_mut(b_scratch) == FALSE

scratch_created(b_scratch) == b_scratch # NULL

\* bool change_this_family = false ;
change_at_start_mut == TRUE

change_at_start == FALSE

\* Line 597: the scan of the family has ended. The log entry has the vacant
\* slot the scan ends with and the one chosen at line 532.
scan_end(c, ik_vacant, ie_vacant) ==
  [c EXCEPT !.s.log = Append(@, Ev("scan_end", c.ik_vacant, c.ie_vacant, 0,
                                   ik_vacant, ie_vacant))]

\* Lines 532-602: the family at offset bk, with its vacant slot chosen.
sort_family_scan(s2, entity_rank, bk, b_scratch, ik_vacant, ie_vacant) ==
  LET buckets == s2.lists[entity_rank]
      ek      == family_end(buckets, ik_vacant, bk) + 1
  IN Bind(family_slots(s2, buckets, bk, ek),
       LAMBDA slots :
         Bind(SortSeq([j \in 1..Len(slots) |-> s2.heap[slots[j][1]].ent[slots[j][2]]],
                      EntityLess),
           LAMBDA entities :
             Bind(scan_end(sort_scan([ s |-> s2, ik_vacant |-> ik_vacant,
                                       ie_vacant |-> ie_vacant,
                                       change_this_family |-> change_at_start ],
                                     slots, entities, 1),
                           ik_vacant, ie_vacant),
               LAMBDA c :
                 IF scratch_created(b_scratch)
                 THEN [s |-> destroy_bucket(c.s, entity_rank, b_scratch), ek |-> ek - 1]
                 ELSE [s |-> c.s, ek |-> ek])))

\* declare_bucket has thrown: the exception leaves the resort at line 526,
\* before line 532 writes to the vacant slot.
after_throw_mut(s1, last) == replace_entity(s1, last, 0, NULL)

after_throw(s1, last) == s1

\* Lines 513-603: one family, starting at offset bk of the rank's list.
\* The result is the state and ek, the offset of the next family.
sort_family(s, entity_rank, bk) ==
  LET first_listed == s.lists[entity_rank][bk + 1]
      last    == last_bucket_in_family(s, first_listed)
      scratch == scratch_needed(s, last, s.heap[last].size)
  IN Bind(IF scratch
          THEN declare_bucket(s, entity_rank, KeyParts(s.heap[first_listed].key), fields)
          ELSE s,
       LAMBDA s1 :
         IF s1.err # "none" THEN [s |-> after_throw(s1, last), ek |-> bk]
         ELSE LET b_scratch == IF scratch THEN s1.ret ELSE NULL
                  ik_vacant == IF scratch THEN b_scratch ELSE last
                  ie_vacant == IF scratch THEN 0 ELSE s1.heap[last].size
              IN Bind(replace_entity(s1, ik_vacant, ie_vacant, NULL),
                   LAMBDA s2 :
                     sort_family_scan(s2, entity_rank, bk, b_scratch, ik_vacant, ie_vacant)))

\* for ( ; bk < buckets.size() ; bk = ek )
next_family_mut(bk, ek) == bk + 1

next_family(bk, ek) == ek

RECURSIVE sort_rank(_, _, _)
sort_rank(s, entity_rank, bk) ==
  IF bk < Len(s.lists[entity_rank])
  THEN Bind(sort_family(s, entity_rank, bk),
         LAMBDA f :
           IF f.s.err # "none" THEN f.s
           ELSE sort_rank(f.s, entity_rank, next_family(bk, f.ek)))
  ELSE s

RECURSIVE sort_ranks(_, _)
sort_ranks(s, entity_rank) ==
  IF entity_rank < NumRanks /\ s.err = "none"
  THEN Bind(sort_rank(s, entity_rank, 0),
         LAMBDA n : sort_ranks(n, entity_rank + 1))
  ELSE s

internal_sort_bucket_entities(s) == [sort_ranks(s, 0) EXCEPT !.ret = NULL]

Resort ==
  /\ op' = Call("resort", 0, 0, 0, 0, <<>>)
  /\ Commit(internal_sort_bucket_entities(Current))

\* declare_bucket called on its own: the returned bucket is left as it is.
DeclareBucket(rank, part_ord) ==
  \E s1 \in { declare_bucket(Current, rank, part_ord, fields) } :
    /\ Cardinality({ b \in Listed(s1) : s1.heap[b].size = 0 }) <= MaxUnfilled
    /\ op' = Call("declare_bucket", 0, 0, 0, rank, part_ord)
    /\ Commit(s1)

\* destroy_bucket( entity_rank , bucket ) called on a listed bucket.
DestroyBucket(b) ==
  /\ b \in Listed(Current)
  /\ op' = Call("destroy_bucket", b, 0, 0, heap[b].rank, KeyParts(heap[b].key))
  /\ Commit(destroy_bucket(Current, heap[b].rank, b))

\* The calls of a caller that fills every bucket it declares.  NumEntities
\* entities make at most max + 1 buckets of one family, so such a caller
\* never asks for a bucket beyond the largest family count.
Next ==
  \/ \E e \in Entities, r \in Ranks, p \in PartOrds : Insert(e, r, p)
  \/ \E k \in Addrs, i \in Slots : Remove(k, i)
  \/ Resort

Spec == Init /\ [][Next]_vars

\* No two listed buckets have the same key: every routine of the repository
\* searches the lists as sorted by key and takes a family's buckets to be
\* adjacent, so a call on a list with two buckets of one key is not modelled
\* (the resort's search for the end of a family, lines 532-534, then runs past
\* the end of the vector).
KeysDistinct ==
  \A b, c \in Listed(Current) : heap[b].key = heap[c].key => b = c

\* Every call of the repository's interface, in any order, by any caller,
\* also for a family that has used up its family counts.
NextAPI ==
  \/ \E e \in Entities, r \in Ranks, p \in PartOrds : KeysDistinct /\ Insert(e, r, p)
  \/ \E k \in Addrs, i \in Slots : KeysDistinct /\ Remove(k, i)
  \/ KeysDistinct /\ Resort
  \/ \E r \in Ranks, p \in PartOrds : KeysDistinct /\ DeclareBucket(r, p)
  \/ \E b \in Addrs : KeysDistinct /\ DestroyBucket(b)

SpecAPI == Init /\ [][NextAPI]_vars

\* declare_bucket called on its own while the rank's vector cannot grow.
DeclareBucketNoGrowth(rank, part_ord) ==
  /\ op' = Call("declare_bucket", 0, 0, 0, rank, part_ord)
  /\ Commit(declare_bucket(CurrentNoGrowth, rank, part_ord, fields))

\* A resort while the ranks' vectors cannot grow.
ResortNoGrowth ==
  /\ op' = Call("resort", 0, 0, 0, 0, <<>>)
  /\ Commit(internal_sort_bucket_entities(CurrentNoGrowth))

\* No call has ended with std::bad_alloc, after which the process is taken
\* to terminate, and no two listed buckets have the same key.
Running == err # "bad_alloc" /\ KeysDistinct

\* Every call of the repository's interface, in any order, by any caller,
\* with and without memory for the ranks' vectors to grow.
NextMemory ==
  \/ \E e \in Entities, r \in Ranks, p \in PartOrds : Running /\ Insert(e, r, p)
  \/ \E k \in Addrs, i \in Slots : Running /\ Remove(k, i)
  \/ Running /\ Resort
  \/ \E r \in Ranks, p \in PartOrds : Running /\ DeclareBucket(r, p)
  \/ \E b \in Addrs : Running /\ DestroyBucket(b)
  \/ \E r \in Ranks, p \in PartOrds : Running /\ DeclareBucketNoGrowth(r, p)
  \/ Running /\ ResortNoGrowth

SpecMemory == Init /\ [][NextMemory]_vars

\* The ranks restrictions are bound to in a mesh whose field layouts are
\* resolved on their own, the keys of those ranks in their order, and the
\* field sets: the first field with any restrictions, the others as in
\* MeshFields.
NumMetaRanks == 2

MetaRanks == 0..(NumMetaRanks - 1)

MetaKeys ==
  [n \in 1..(NumMetaRanks * NumParts) |->
     <<(n - 1) \div NumParts, ((n - 1) % NumParts) + 1>>]

MetaRestrictionLists ==
  { SelectSeq([n \in DOMAIN MetaKeys |-> [key |-> MetaKeys[n], stride |-> d[n]]],
              LAMBDA x : x.stride # 0) :
      d \in [DOMAIN MetaKeys -> Dimensions \cup {0}] }

MetaFieldSets ==
  { [f \in 1..NumFields |->
       IF f = 1 THEN [ field_rank |-> 1, stride_of |-> 4, restrictions |-> r ]
       ELSE MeshFields[f]] : r \in MetaRestrictionLists }

InitResolve == fields \in MetaFieldSets /\ InitRepository

\* Lines 367-401 on their own: the field map of a new family of the rank
\* and the parts is resolved; the repository is left as it is.
ResolveFieldMap(etype, part_ord) ==
  /\ op' = Call("new_field_map", 0, 0, 0, etype, part_ord)
  /\ Commit(new_field_map(Current, fields, etype, part_ord).s)

NextResolve ==
  \E r \in MetaRanks, p \in PartOrds : ResolveFieldMap(r, p)

SpecResolve == InitResolve /\ [][NextResolve]_vars

\* declare_nil_bucket()
DeclareNilBucket ==
  /\ op' = Call("declare_nil_bucket", 0, 0, 0, 0, <<>>)
  /\ Commit(declare_nil_bucket(Current))

\* The calls of a caller that fills every bucket it declares and asks for
\* the nil bucket at any time.
NextNil ==
  \/ \E e \in Entities, r \in Ranks, p \in PartOrds : Insert(e, r, p)
  \/ \E k \in Addrs, i \in Slots : Remove(k, i)
  \/ Resort
  \/ DeclareNilBucket

SpecNil == Init /\ [][NextNil]_vars

\* ------------------------------------------- internal_propagate_relocation
\* The ranks of the entities a relation can lead to, the identifiers a
\* relation can have and the longest list of relations of an entity.
NumRelationRanks == 3

MaxRelations == 3

NumIdentifiers == 1

\* entity.relations(): each relation has entity_rank(), entity() and
\* identifier(). The entity the hook is run for is entity 1.
Relations ==
  [ entity_rank : 0..(NumRelationRanks - 1), entity : Entities \ {1},
    identifier : 1..NumIdentifiers ]

RelationLists == UNION { [1..n -> Relations] : n \in 0..MaxRelations }

\* rel_type < etype
lower_rank_mut(rel_type, etype) == rel_type <= etype

lower_rank(rel_type, etype) == rel_type < etype

\* set_field_relations( e_from , e_to , ident )
set_field_relations(s, e_from, e_to, ident) ==
  [s EXCEPT !.log = Append(@, Ev("set_field_relations", 0, ident, e_from, e_to, 0))]

\* Lines 652-664: the loop over the relations from position n on.
RECURSIVE propagate_over(_, _, _, _, _)
propagate_over(s, entity, etype, rel, n) ==
  IF n > Len(rel) THEN s
  ELSE LET rel_type == rel[n].entity_rank
       IN Bind(IF lower_rank(rel_type, etype)
               THEN set_field_relations(s, entity, rel[n].entity, rel[n].identifier)
               ELSE IF etype < rel_type
               THEN set_field_relations(s, rel[n].entity, entity, rel[n].identifier)
               ELSE s,
            LAMBDA s1 : propagate_over(s1, entity, etype, rel, n + 1))

\* internal_propagate_relocation( entity ) for an entity of rank etype with
\* the relations rel; the repository is left as it is.
PropagateRelocation(etype, rel) ==
  /\ op' = [Call("internal_propagate_relocation", 0, 0, 1, etype, <<>>)
             EXCEPT !.relations = rel]
  /\ Commit(propagate_over(Current, 1, etype, rel, 1))

NextRelocation ==
  \E etype \in 0..(NumRelationRanks - 1), rel \in RelationLists :
    PropagateRelocation(etype, rel)

SpecRelocation == Init /\ [][NextRelocation]_vars

\* The first bucket of a family declared and destroyed again, in a mesh with
\* any field set.
NextLayout ==
  \/ \E r \in Ranks, p \in PartOrds : DeclareBucket(r, p)
  \/ \E b \in Addrs : DestroyBucket(b)

SpecLayout == InitLayout /\ [][NextLayout]_vars

\* ================================================================ claims
\* The buckets listed for any rank.
ListedIn(l) == UNION { { l[r][p] : p \in 1..Len(l[r]) } : r \in Ranks }

SameFamily(h, b, c) ==
  h[b].rank = h[c].rank /\ KeyParts(h[b].key) = KeyParts(h[c].key)

FamilyBuckets(h, l, rank, parts) ==
  { b \in ListedIn(l) : h[b].rank = rank /\ KeyParts(h[b].key) = parts }

\* The family's bucket with the highest family sequence.
FamilyLast(h, l, rank, parts) ==
  CHOOSE b \in FamilyBuckets(h, l, rank, parts) :
    \A c \in FamilyBuckets(h, l, rank, parts) : KeyCount(h[c].key) <= KeyCount(h[b].key)

\* The handles of a family read in list order, each bucket's slots
\* 0 .. size-1 in index order.
RECURSIVE FamilyLiveFrom(_, _, _, _, _)
FamilyLiveFrom(h, l, rank, parts, p) ==
  IF p > Len(l[rank]) THEN <<>>
  ELSE LET b == l[rank][p]
       IN (IF KeyParts(h[b].key) = parts
           THEN [i \in 1..h[b].size |-> h[b].ent[i - 1]]
           ELSE <<>>) \o FamilyLiveFrom(h, l, rank, parts, p + 1)

FamilyLive(h, l, rank, parts) == FamilyLiveFrom(h, l, rank, parts, 1)

Range(f) == { f[x] : x \in DOMAIN f }

Injective(f) == \A x, y \in DOMAIN f : f[x] = f[y] => x = y

\* The entries of a log with the given name.
Logged(lg, name) == SelectSeq(lg, LAMBDA x : x.ev = name)

PositionOf(v, b) == CHOOSE p \in 1..Len(v) : v[p] = b

\* Lexicographic order of two keys of the layout
\* { part_count + 1 , { part_ordinals } , family_count }.
KeyBefore(k1, k2) ==
  \E p \in 1..Min(Len(k1), Len(k2)) :
    /\ k1[p] < k2[p]
    /\ \A q \in 1..(p - 1) : k1[q] = k2[q]

C2_Ordering ==
  \A r \in Ranks : \A p \in 1..(Len(lists[r]) - 1) :
    KeyBefore(heap[lists[r][p]].key, heap[lists[r][p + 1]].key)

\* C3: back-reference invariant. Every entity that is in a bucket has a
\* back-reference to a listed bucket and a slot below its size that holds
\* the entity's handle, and no handle is held by two live slots.
C3_BackReference ==
  /\ \A e \in Entities :
       bkt[e] # NULL =>
         /\ bkt[e] \in ListedIn(lists)
         /\ ord[e] < heap[bkt[e]].size
         /\ heap[bkt[e]].ent[ord[e]] = e
  /\ \A b, c \in ListedIn(lists) : \A i, j \in Slots :
       ( /\ i < heap[b].size
         /\ j < heap[c].size
         /\ heap[b].ent[i] # NULL
         /\ heap[b].ent[i] = heap[c].ent[j] )
         => (b = c /\ i = j)

C3_Witness ==
  /\ op.name = "resort"
  /\ err = "none"
  /\ Len(Logged(log, "change_entity_bucket")) >= 3
  /\ \A e \in Entities : bkt[e] # NULL

\* C4: swap-remove count. remove_entity( k , i ) on a family holding n
\* entities leaves the family with n - 1 live slots holding the previous
\* entities except the one that was in slot i of k, each in one slot, and
\* none of the live slots is vacant.
C4_SwapRemove ==
  [][ op'.name = "remove_entity" =>
        LET k       == op'.b
            rank    == heap[k].rank
            parts   == KeyParts(heap[k].key)
            before  == FamilyLive(heap, lists, rank, parts)
            after   == FamilyLive(heap', lists', rank, parts)
            removed == heap[k].ent[op'.i]
        IN /\ Len(after) = Len(before) - 1
           /\ Range(after) = Range(before) \ {removed}
           /\ removed \in Range(before)
           /\ Injective(after)
           /\ NULL \notin Range(after) ]_vars

C4_Witness ==
  /\ op.name = "remove_entity"
  /\ err = "none"
  /\ Len(Logged(log, "copy_fields")) = 1
  /\ Len(FamilyLive(heap, lists, op.rank, op.parts)) = NumEntities - 1

\* C5: remove_entity( k , i ) invokes the relocation hook once, for the
\* entity in the last live slot of the family's last bucket, and points that
\* entity's back-reference at (k, i), unless (k, i) is that last live slot;
\* then no back-reference of a remaining entity changes and the hook is
\* not invoked.
C5_RemoveHook ==
  [][ op'.name = "remove_entity" =>
        LET k     == op'.b
            i     == op'.i
            last  == FamilyLast(heap, lists, heap[k].rank, KeyParts(heap[k].key))
            moved == heap[last].ent[heap[last].size - 1]
            hooks == Logged(log', "propagate_relocation")
        IN IF k = last /\ i = heap[last].size - 1
           THEN /\ hooks = <<>>
                /\ Logged(log', "copy_fields") = <<>>
                /\ \A e \in Entities \ {heap[k].ent[i]} :
                     bkt'[e] = bkt[e] /\ ord'[e] = ord[e]
           ELSE /\ Len(hooks) = 1
                /\ hooks[1].e = moved
                /\ bkt'[moved] = k
                /\ ord'[moved] = i ]_vars

C5_Witness ==
  /\ op.name = "remove_entity"
  /\ err = "none"
  /\ Len(Logged(log, "propagate_relocation")) = 1
  /\ \E e \in Entities :
       /\ Logged(log, "propagate_relocation")[1].e = e
       /\ bkt[e] = op.b
       /\ ord[e] = op.i
       /\ \E x \in DOMAIN log : log[x].ev = "copy_fields" /\ log[x].b # log[x].sb

\* The families that have a listed bucket.
Families(h, l) == { <<h[b].rank, KeyParts(h[b].key)>> : b \in ListedIn(l) }

StrictlyIncreasing(f) == \A x, y \in DOMAIN f : x < y => f[x] < f[y]

\* C6: resort postcondition. When internal_sort_bucket_entities has
\* returned, every family read in list order, slots 0 .. size-1 of each
\* bucket in index order, holds its entities in strictly increasing order.
C6_ResortSorted ==
  (op.name = "resort" /\ err = "none") =>
    \A f \in Families(heap, lists) :
      /\ StrictlyIncreasing(FamilyLive(heap, lists, f[1], f[2]))
      /\ NULL \notin Range(FamilyLive(heap, lists, f[1], f[2]))

C6_Witness ==
  /\ op.name = "resort"
  /\ err = "none"
  /\ \E x \in DOMAIN log : log[x].ev = "new"
  /\ Len(Logged(log, "copy_fields")) >= 3
  /\ \E f \in Families(heap, lists) : Len(FamilyLive(heap, lists, f[1], f[2])) >= 2

\* C7: resort idempotence. A resort that follows a resort leaves every
\* bucket's handles and field data, the lists and every back-reference as
\* they were, copies no field data, updates no back-reference and invokes
\* the relocation hook for no entity.
C7_ResortIdempotent ==
  [][ (op.name = "resort" /\ err = "none" /\ op'.name = "resort") =>
        /\ err' = "none"
        /\ heap' = heap
        /\ lists' = lists
        /\ bkt' = bkt
        /\ ord' = ord
        /\ Logged(log', "copy_fields") = <<>>
        /\ Logged(log', "change_entity_bucket") = <<>>
        /\ Logged(log', "propagate_relocation") = <<>> ]_vars

\* The second of two resorts has run on a family with a full last bucket.
C7_Witness ==
  /\ op.name = "resort"
  /\ op.after_resort
  /\ err = "none"
  /\ Logged(log, "copy_fields") = <<>>
  /\ \E x \in DOMAIN log : log[x].ev = "free"
  /\ Cardinality(Families(heap, lists)) >= 2

\* C8: field data follows the entity. The field data stored at the slot an
\* entity's back-reference names is the data the entity was given when it
\* was placed (entity e was given the data e).
C8_DataFollows ==
  \A e \in Entities : bkt[e] # NULL => heap[bkt[e]].data[ord[e]] = e

C8_Witness ==
  /\ op.name = "remove_entity"
  /\ err = "none"
  /\ \E x \in DOMAIN log :
       /\ log[x].ev = "copy_fields"
       /\ log[x].b # log[x].sb
       /\ heap[log[x].b].data[log[x].i] = heap[log[x].b].ent[log[x].i]
       /\ heap[log[x].b].ent[log[x].i] # NULL

\* declare_bucket has run, alone or for an insertion.
Declared(name) == name \in {"declare_bucket", "insert"}

\* C9 as stated: declare_bucket for an existing family whose last bucket
\* has size < capacity returns that bucket and creates no bucket.
C9_AsStated ==
  [][ ( /\ Declared(op'.name)
        /\ FamilyBuckets(heap, lists, op'.rank, op'.parts) # {}
        /\ LET last == FamilyLast(heap, lists, op'.rank, op'.parts)
           IN heap[last].size < heap[last].capacity )
      => ( /\ ret' = FamilyLast(heap, lists, op'.rank, op'.parts)
           /\ lists' = lists ) ]_vars

\* C10: declare_bucket for an existing family whose last bucket is full
\* creates one bucket, with the last bucket's family sequence plus one,
\* listed right after the previous last bucket; its family pointer names
\* the family's first bucket, whose family pointer names the new bucket.
C10_ChainsNewBucket ==
  [][ ( /\ Declared(op'.name)
        /\ err' = "none"
        /\ FamilyBuckets(heap, lists, op'.rank, op'.parts) # {}
        /\ LET last == FamilyLast(heap, lists, op'.rank, op'.parts)
           IN heap[last].size = heap[last].capacity )
      => LET r     == op'.rank
             last  == FamilyLast(heap, lists, r, op'.parts)
             p     == PositionOf(lists[r], last)
             new   == ret'
             first == CHOOSE b \in FamilyBuckets(heap, lists, r, op'.parts) :
                        KeyCount(heap[b].key) = 0
         IN /\ new \notin ListedIn(lists)
            /\ lists'[r] = SubSeq(lists[r], 1, p) \o <<new>>
                             \o SubSeq(lists[r], p + 1, Len(lists[r]))
            /\ \A q \in Ranks \ {r} : lists'[q] = lists[q]
            /\ KeyParts(heap'[new].key) = op'.parts
            /\ KeyCount(heap'[new].key) = KeyCount(heap[last].key) + 1
            /\ (IF KeyCount(heap'[new].key) = 0 THEN new ELSE heap'[new].fam) = first
            /\ heap'[first].fam = new ]_vars

C10_Witness ==
  /\ op.name = "insert"
  /\ err = "none"
  /\ Len(Logged(log, "new")) = 1
  /\ KeyCount(heap[ret].key) = 1
  /\ heap[ret].size = 1
  /\ \E r \in Ranks : \E p \in 1..(Len(lists[r]) - 1) :
       lists[r][p + 1] = ret /\ heap[ret].fam = lists[r][p] /\ heap[lists[r][p]].fam = ret

\* C11: declare_bucket for a rank and part ordinals of which no bucket is
\* listed creates one bucket with family sequence 0 whose family pointer
\* names itself (it is the first and the last bucket of its family), and
\* lists it where the rank's list stays ordered; buckets of the rank with
\* other part ordinals do not make the family exist.
C11_FirstBucket ==
  [][ ( /\ Declared(op'.name)
        /\ err' # "runtime_error"
        /\ FamilyBuckets(heap, lists, op'.rank, op'.parts) = {} )
      => LET r   == op'.rank
             new == ret'
         IN /\ err' = "none"
            /\ new # NULL
            /\ new \notin ListedIn(lists)
            /\ Len(Logged(log', "new")) = 1
            /\ heap'[new].rank = r
            /\ heap'[new].key = MakeKey(op'.parts, 0)
            /\ heap'[new].fam = new
            /\ \E p \in 1..(Len(lists[r]) + 1) :
                 lists'[r] = SubSeq(lists[r], 1, p - 1) \o <<new>>
                               \o SubSeq(lists[r], p, Len(lists[r]))
            /\ \A p \in 1..(Len(lists'[r]) - 1) :
                 KeyBefore(heap'[lists'[r][p]].key, heap'[lists'[r][p + 1]].key)
            /\ \A q \in Ranks \ {r} : lists'[q] = lists[q]
            /\ \A b \in ListedIn(lists) : heap'[b] = heap[b] ]_vars

\* A first bucket was created between the buckets of two other families.
C11_Witness ==
  /\ op.name = "declare_bucket"
  /\ err = "none"
  /\ Len(Logged(log, "new")) = 1
  /\ KeyCount(heap[ret].key) = 0
  /\ heap[ret].fam = ret
  /\ \E r \in Ranks : \E p \in 2..(Len(lists[r]) - 1) : lists[r][p] = ret

\* ceil( n / c )
CeilDiv(n, c) == (n + c - 1) \div c

C13_EmptyLastDestroyed ==
  [][ ( /\ op'.name = "remove_entity"
        /\ heap[FamilyLast(heap, lists, heap[op'.b].rank, KeyParts(heap[op'.b].key))].size = 1 )
      => LET r     == heap[op'.b].rank
             parts == KeyParts(heap[op'.b].key)
             last  == FamilyLast(heap, lists, r, parts)
             p     == PositionOf(lists[r], last)
             rest  == FamilyBuckets(heap, lists, r, parts) \ {last}
         IN /\ err' = "none"
            /\ lists'[r] = SubSeq(lists[r], 1, p - 1) \o SubSeq(lists[r], p + 1, Len(lists[r]))
            /\ \A q \in Ranks \ {r} : lists'[q] = lists[q]
            /\ ~heap'[last].alloc
            /\ Len(Logged(log', "free")) = 1
            /\ Logged(log', "free")[1].b = last
            /\ FamilyBuckets(heap', lists', r, parts) = rest
            /\ IF KeyCount(heap[last].key) = 0
               THEN rest = {}
               ELSE LET first == CHOOSE b \in rest : KeyCount(heap[b].key) = 0
                        prev  == lists[r][p - 1]
                    IN /\ prev \in rest
                       /\ KeyCount(heap[prev].key) = KeyCount(heap[last].key) - 1
                       /\ heap'[first].fam = prev
                       /\ heap'[prev].size > 0 ]_vars

\* The sole entity of a second bucket was removed from a slot of the first
\* bucket: the second bucket is freed and the first names itself as last.
C13_Witness ==
  /\ op.name = "remove_entity"
  /\ err = "none"
  /\ \E x \in DOMAIN log : log[x].ev = "free" /\ log[x].b # op.b
  /\ Len(Logged(log, "copy_fields")) = 1
  /\ op.b \in ListedIn(lists)
  /\ heap[op.b].fam = op.b
  /\ heap[op.b].size = bucket_capacity

\* The restrictions of a field bound to the rank and to one of the parts.
Matching(field, rank, parts) ==
  { x \in Range(field.restrictions) : x.key[1] = rank /\ x.key[2] \in Range(parts) }

\* Two matching restrictions of the field disagree.
Conflict(field, rank, parts) ==
  \E x, y \in Matching(field, rank, parts) : x.stride # y.stride

\* C14: schema conflict. declare_bucket for a family without a bucket fails
\* exactly if, for some field, two restrictions bound to the bucket's rank
\* and to parts of the key have different strides; the error then names
\* such a field and two parts of the key whose restrictions of that field
\* differ, and no bucket is created. When the matching restrictions of
\* every field agree, no error is raised.
C14_SchemaConflict ==
  [][ ( /\ op'.name = "declare_bucket"
        /\ FamilyBuckets(heap, lists, op'.rank, op'.parts) = {} )
      => LET r      == op'.rank
             parts  == op'.parts
             named  == Logged(log', "incompatible")
         IN IF \E f \in DOMAIN fields : Conflict(fields[f], r, parts)
            THEN /\ err' = "runtime_error"
                 /\ ret' = NULL
                 /\ lists' = lists
                 /\ heap' = heap
                 /\ Len(named) = 1
                 /\ named[1].i \in DOMAIN fields
                 /\ \E x, y \in Matching(fields[named[1].i], r, parts) :
                      /\ x.key[2] = named[1].sb
                      /\ y.key[2] = named[1].si
                      /\ x.stride # y.stride
            ELSE /\ err' = "none"
                 /\ named = <<>>
                 /\ ret' # NULL ]_vars

\* The first field resolved and the second was refused for two parts.
C14_Witness ==
  /\ op.name = "declare_bucket"
  /\ err = "runtime_error"
  /\ Len(Logged(log, "dimension")) = 1
  /\ Len(Logged(log, "incompatible")) = 1
  /\ Logged(log, "incompatible")[1].i = 2
  /\ Logged(log, "incompatible")[1].sb # Logged(log, "incompatible")[1].si
  /\ Len(fields[1].restrictions) = NumRanks * NumParts

\* C15 as stated: in every listed bucket the base offsets of the fields are
\* multiples of 16 and strictly increasing in registration order.
C15_AsStated ==
  \A b \in ListedIn(lists) :
    LET m == heap[b].field_map
    IN /\ \A i \in 1..NumFields : m[i].m_base % BYTE_ALIGN = 0
       /\ \A i, j \in 1..NumFields : i < j => m[i].m_base < m[j].m_base

\* C15 amended: in every listed bucket the base offsets of the fields and
\* of the closing entry are multiples of 16 and never decrease in
\* registration order; a base is below the next one exactly if the field
\* takes bytes in a slot, so a field of size zero shares its base with the
\* entry after it.
C15_AlignedOffsets ==
  \A b \in ListedIn(lists) :
    LET m == heap[b].field_map
    IN /\ Len(m) = NumFields + 1
       /\ \A i \in 1..(NumFields + 1) : m[i].m_base % BYTE_ALIGN = 0
       /\ \A i \in 1..NumFields :
            /\ m[i].m_base <= m[i + 1].m_base
            /\ (m[i].m_base < m[i + 1].m_base) <=> (m[i].m_size > 0)

\* A field map with a field of size zero before a field of size 12.
C15_Witness ==
  /\ op.name = "declare_bucket"
  /\ err = "none"
  /\ ret # NULL
  /\ LET m == heap[ret].field_map
     IN /\ m[NumFields - 1].m_size = 0
        /\ m[NumFields].m_size = 12
        /\ m[NumFields - 1].m_base = m[NumFields].m_base
        /\ m[NumFields].m_base < m[NumFields + 1].m_base

\* The hook for the entity of log entry x directly follows the entry, with
\* at most the assignment of the entity's handle to its new slot between.
HookedAtOnce(lg, x) ==
  LET IsHook(y) == /\ y <= Len(lg)
                   /\ lg[y].ev = "propagate_relocation"
                   /\ lg[y].e = lg[x].e
  IN \/ IsHook(x + 1)
     \/ /\ x + 1 <= Len(lg)
        /\ lg[x + 1].ev = "replace_entity"
        /\ lg[x + 1].e = lg[x].e
        /\ lg[x + 1].b = lg[x].b
        /\ lg[x + 1].i = lg[x].i
        /\ IsHook(x + 2)

\* The call that has run is remove_entity or internal_sort_bucket_entities.
Relocating == op.name \in {"remove_entity", "resort"}

\* C16 as stated: every update of a back-reference made by remove_entity or
\* by a resort, the one of an occupant moved to the vacant slot included,
\* is followed at once by the relocation hook for the moved entity.
C16_AsStated ==
  Relocating =>
    \A x \in DOMAIN log : log[x].ev = "change_entity_bucket" => HookedAtOnce(log, x)

\* C16 amended: an entity whose back-reference remove_entity or a resort
\* updates is hooked in that call, once, after the last update of its
\* back-reference. remove_entity invokes the hook at once after the update;
\* a resort invokes it when the scan has the entity in its sorted slot, which
\* for an occupant moved to the vacant slot is after later slots have been
\* vacated and copied.
C16_HookAfterLastMove ==
  Relocating =>
    /\ \A x \in DOMAIN log :
         log[x].ev = "change_entity_bucket" =>
           \/ HookedAtOnce(log, x)
           \/ /\ op.name = "resort"
              /\ \E y \in DOMAIN log :
                   /\ y > x
                   /\ log[y].ev = "propagate_relocation"
                   /\ log[y].e = log[x].e
    /\ \A x, y \in DOMAIN log :
         ( /\ log[x].ev = "propagate_relocation"
           /\ log[y].ev = "change_entity_bucket"
           /\ log[x].e = log[y].e ) => y < x
    /\ \A x, y \in DOMAIN log :
         ( /\ log[x].ev = "propagate_relocation"
           /\ log[y].ev = "propagate_relocation"
           /\ log[x].e = log[y].e ) => x = y

\* A resort has moved an occupant to the vacant slot, which is its sorted
\* slot, and has hooked it after moving another entity.
C16_Witness ==
  /\ op.name = "resort"
  /\ err = "none"
  /\ \E x, y, z \in DOMAIN log :
       /\ x < z /\ z < y
       /\ log[x].ev = "change_entity_bucket"
       /\ ~HookedAtOnce(log, x)
       /\ log[z].ev = "copy_fields"
       /\ log[y].ev = "propagate_relocation"
       /\ log[y].e = log[x].e
       /\ bkt[log[x].e] = log[x].b
       /\ ord[log[x].e] = log[x].i

\* The first position at which two sequences of one length differ, or one
\* past their length.
FirstMismatch(a, b) ==
  CHOOSE m \in 1..(Len(a) + 1) :
    /\ \A j \in 1..(m - 1) : a[j] = b[j]
    /\ m <= Len(a) => a[m] # b[m]

\* C17: in a resort, the relocation hook is invoked for the sorted occupant
\* of the first slot of a family that did not hold it and of every slot of
\* the family the scan reaches after it, in scan order, whether the slot
\* held its sorted occupant or not, and for no entity of the family before.
C17_HookRestOfFamily ==
  [][ (op'.name = "resort" /\ err' = "none") =>
        \A f \in Families(heap, lists) :
          LET before == FamilyLive(heap, lists, f[1], f[2])
              after  == FamilyLive(heap', lists', f[1], f[2])
              hooks  == SelectSeq(log', LAMBDA x : /\ x.ev = "propagate_relocation"
                                                   /\ x.e \in Range(before))
          IN /\ Len(after) = Len(before)
             /\ [j \in 1..Len(hooks) |-> hooks[j].e]
                  = SubSeq(after, FirstMismatch(before, after), Len(after)) ]_vars

\* A resort has invoked the hook for an entity it did not move, after an
\* entity it moved.
C17_Witness ==
  /\ op.name = "resort"
  /\ err = "none"
  /\ \E x, y \in DOMAIN log :
       /\ x < y
       /\ log[x].ev = "change_entity_bucket"
       /\ log[y].ev = "propagate_relocation"
       /\ heap[bkt[log[y].e]].rank = heap[bkt[log[x].e]].rank
       /\ KeyParts(heap[bkt[log[y].e]].key) = KeyParts(heap[bkt[log[x].e]].key)
       /\ \A z \in DOMAIN log :
            log[z].ev = "change_entity_bucket" => log[z].e # log[y].e

\* The full last buckets of the families of ranks r and above, in list order.
RECURSIVE FullLastsFrom(_, _, _)
FullLastsFrom(h, l, r) ==
  IF r >= NumRanks THEN <<>>
  ELSE SelectSeq(l[r], LAMBDA b : /\ b = FamilyLast(h, l, h[b].rank, KeyParts(h[b].key))
                                  /\ h[b].size = h[b].capacity)
         \o FullLastsFrom(h, l, r + 1)

\* C18: a resort creates a scratch bucket for exactly the families whose
\* last bucket is full, one after the other in list order, each chained
\* after that last bucket and freed before the next one is created; when
\* the resort has returned every rank lists the buckets it listed before,
\* in the same order, and no other bucket is allocated.
C18_ScratchBucket ==
  [][ (op'.name = "resort" /\ err' # "runtime_error") =>
        LET full  == FullLastsFrom(heap, lists, 0)
            made  == SelectSeq(log', LAMBDA x : x.ev \in {"new", "free"})
        IN /\ err' = "none"
           /\ lists' = lists
           /\ \A a \in Addrs : heap'[a].alloc = heap[a].alloc
           /\ \A b \in ListedIn(lists) : heap'[b].key = heap[b].key
           /\ Len(made) = 2 * Len(full)
           /\ \A j \in 1..Len(full) :
                /\ made[2 * j - 1].ev = "new"
                /\ made[2 * j - 1].sb = full[j]
                /\ made[2 * j - 1].b \notin ListedIn(lists)
                /\ made[2 * j].ev = "free"
                /\ made[2 * j].b = made[2 * j - 1].b ]_vars

\* A resort over a family with a full last bucket, which got a scratch
\* bucket, and a family with a partly filled one, which got none.
C18_Witness ==
  /\ op.name = "resort"
  /\ err = "none"
  /\ Len(Logged(log, "new")) = 1
  /\ Len(Logged(log, "free")) = 1
  /\ Len(Logged(log, "copy_fields")) >= 1
  /\ \E b, c \in ListedIn(lists) :
       /\ heap[b].size = heap[b].capacity
       /\ Logged(log, "new")[1].sb = b
       /\ heap[c].size < heap[c].capacity
       /\ heap[c].fam = c

\* C19: destroy_bucket( entity_rank , bucket ) on a bucket that holds an
\* entity or is not the last bucket of its family throws a logic error,
\* erases nothing from the rank's list, frees nothing and changes no
\* bucket, so no family pointer.
C19_DestroyRefused ==
  [][ ( /\ op'.name = "destroy_bucket"
        /\ \/ heap[op'.b].size # 0
           \/ op'.b # FamilyLast(heap, lists, heap[op'.b].rank, KeyParts(heap[op'.b].key)) )
      => /\ err' = "logic_error"
         /\ lists' = lists
         /\ heap' = heap
         /\ log' = <<>> ]_vars

\* destroy_bucket was refused for a full bucket that is not the last of its
\* family.
C19_Witness ==
  /\ op.name = "destroy_bucket"
  /\ err = "logic_error"
  /\ op.b \in ListedIn(lists)
  /\ heap[op.b].size = heap[op.b].capacity
  /\ op.b # FamilyLast(heap, lists, op.rank, op.parts)
  /\ heap[FamilyLast(heap, lists, op.rank, op.parts)].size > 0

\* The family's last bucket is full and has the largest family count.
CounterWouldWrap(rank, parts) ==
  /\ FamilyBuckets(heap, lists, rank, parts) # {}
  /\ LET last == FamilyLast(heap, lists, rank, parts)
     IN /\ heap[last].size = heap[last].capacity
        /\ KeyCount(heap[last].key) = max

\* C20: declare_bucket throws std::logic_error and creates no bucket when the
\* family's last bucket is full and its family count is already the largest
\* value of the counter, and after any call no two listed buckets of one
\* family have the same family count.
C20_AsStated ==
  [][ /\ (op'.name \in {"declare_bucket", "insert"} /\ CounterWouldWrap(op'.rank, op'.parts))
         => /\ err' = "logic_error"
            /\ lists' = lists
            /\ \A a \in Addrs : heap'[a].alloc = heap[a].alloc
      /\ \A b, c \in ListedIn(lists') :
           (SameFamily(heap', b, c) /\ KeyCount(heap'[b].key) = KeyCount(heap'[c].key))
             => b = c ]_vars

\* The call that has run places, removes or resorts entities.
Placing == op.name \in {"insert", "remove_entity", "resort"}

\* C21: null trailing handles. After a completed insertion, remove_entity
\* or resort every slot size .. capacity-1 of every listed bucket holds no
\* handle.
C21_NullTrailingHandles ==
  (Placing /\ err = "none") =>
    \A b \in ListedIn(lists) : \A i \in Slots :
      (heap[b].size <= i /\ i < heap[b].capacity) => heap[b].ent[i] = NULL

\* A resort has put an entity in the slot after the last bucket's live slots
\* and has taken it out again, and a bucket has a slot past its size.
C21_Witness ==
  /\ op.name = "resort"
  /\ err = "none"
  /\ \E x, y \in DOMAIN log :
       /\ x < y
       /\ log[x].ev = "replace_entity" /\ log[x].e # NULL
       /\ log[y].ev = "replace_entity" /\ log[y].e = NULL
       /\ log[x].b = log[y].b /\ log[x].i = log[y].i
       /\ log[x].b \in ListedIn(lists)
       /\ heap[log[x].b].size <= log[x].i

\* C22: zeroed trailing field data. After a completed remove_entity or
\* resort the field data of every slot size .. capacity-1 of every listed
\* bucket is zero: the slot a removal gave up and the vacant slot a resort
\* leaves hold no data of an entity.
C22_AsStated ==
  (Relocating /\ err = "none") =>
    \A b \in ListedIn(lists) : \A i \in Slots :
      (heap[b].size <= i /\ i < heap[b].capacity) => heap[b].data[i] = 0

\* C23: family pointers. After a completed declare_bucket, remove_entity,
\* destroy_bucket or resort, alone or for an insertion, the first-bucket
\* pointer of every listed bucket names a listed bucket of its family with
\* family sequence 0, and the last-bucket pointer of that bucket names a
\* listed bucket of the family that has the family's highest sequence.
C23_FamilyPointers ==
  err = "none" =>
    \A b \in ListedIn(lists) :
      LET first == first_bucket_in_family(Current, b)
          last  == last_bucket_in_family(Current, b)
      IN /\ first \in ListedIn(lists)
         /\ SameFamily(heap, b, first)
         /\ KeyCount(heap[first].key) = 0
         /\ last \in ListedIn(lists)
         /\ SameFamily(heap, b, last)
         /\ \A c \in ListedIn(lists) :
              SameFamily(heap, b, c) => KeyCount(heap[c].key) <= KeyCount(heap[last].key)

\* destroy_bucket has freed the empty second bucket of a family, and the
\* first bucket, which is full, is named as the family's last again.
C23_Witness ==
  /\ op.name = "destroy_bucket"
  /\ err = "none"
  /\ \E x \in DOMAIN log : log[x].ev = "free" /\ log[x].b = op.b
  /\ \E b \in FamilyBuckets(heap, lists, op.rank, op.parts) :
       /\ heap[b].fam = b
       /\ heap[b].size = heap[b].capacity

\* C24: the layout belongs to the family. The buckets of a family have one
\* field map; a call resolves the restrictions of the fields once for every
\* first bucket of a family it creates and not at all for a bucket chained
\* to an existing family, a resort's scratch bucket included, which is
\* given the bytes the family's field map asks for; declare_bucket on an
\* existing family reports no incompatible restrictions.
C24_LayoutPerFamily ==
  /\ \A b, c \in ListedIn(lists) :
       SameFamily(heap, b, c) => heap[b].field_map = heap[c].field_map
  /\ err = "none" =>
       /\ Len(Logged(log, "dimension"))
            = NumFields * Len(SelectSeq(log, LAMBDA x : x.ev = "new" /\ x.sb = NULL))
       /\ Logged(log, "incompatible") = <<>>
       /\ \A x \in DOMAIN log :
            (log[x].ev = "new" /\ log[x].sb # NULL) =>
              LET m == heap[log[x].sb].field_map
              IN log[x].si = m[Len(m)].m_base

\* An insertion has chained a second bucket to a family whose second field
\* takes 12 bytes a slot, without resolving a restriction.
C24_Witness ==
  /\ op.name = "insert"
  /\ err = "none"
  /\ Logged(log, "dimension") = <<>>
  /\ Len(Logged(log, "new")) = 1
  /\ Logged(log, "new")[1].sb # NULL
  /\ heap[ret].field_map = heap[Logged(log, "new")[1].sb].field_map
  /\ heap[ret].field_map[NumFields].m_size = 12

\* C25: a declare_bucket that throws, whatever it throws, leaves every
\* rank's list, the size of every bucket and every family pointer as they
\* were before the call: no bucket has been listed or chained.
C25_AsStated ==
  [][ (op'.name = "declare_bucket" /\ err' # "none") =>
        /\ lists' = lists
        /\ \A b \in ListedIn(lists) :
             /\ heap'[b].size = heap[b].size
             /\ heap'[b].fam = heap[b].fam ]_vars

\* The bytes of the block, counted from the handle array, that slot i of
\* field f takes under the field map m, and those the handle array takes.
FieldBytes(m, f, i) ==
  { a \in 0..(m[f].m_base + m[f].m_size * (i + 1)) :
      /\ m[f].m_base + m[f].m_size * i <= a
      /\ a < m[f].m_base + m[f].m_size * (i + 1) }

HandleBytes == 0..(sizeof_entity_ptr * bucket_capacity - 1)

\* A block of the size the closing entry gives, every byte zero; byte v
\* written to every byte of slot i of field f; the bytes of the slot read.
ZeroBlock(m) == [a \in 0..(m[NumFields + 1].m_base - 1) |-> 0]

put_field_data(mem, m, f, i, v) ==
  [a \in DOMAIN mem |->
     IF /\ m[f].m_base + m[f].m_size * i <= a
        /\ a < m[f].m_base + m[f].m_size * (i + 1)
     THEN v ELSE mem[a]]

get_field_data(mem, m, f, i) ==
  [k \in 1..m[f].m_size |-> mem[m[f].m_base + m[f].m_size * i + (k - 1)]]

RoundUp16(n) == ((n + 15) \div 16) * 16

\* C26: column disjointness. In the field map of every listed bucket the
\* first field's base is 8 * capacity rounded up to 16 and every next base
\* is the previous one plus size * capacity rounded up to 16; the bytes of
\* two different (field, slot) pairs never overlap each other or the handle
\* array and lie below the closing entry's base; bytes written to one slot
\* of one field are read back from it, and every other slot of every field
\* and the handle array read as before.
C26_ColumnDisjoint ==
  \A b \in ListedIn(lists) :
    LET m     == heap[b].field_map
        pairs == (1..NumFields) \X Slots
    IN /\ m[1].m_base = RoundUp16(sizeof_entity_ptr * bucket_capacity)
       /\ \A f \in 1..NumFields :
            m[f + 1].m_base = m[f].m_base + RoundUp16(m[f].m_size * bucket_capacity)
       /\ \A p \in pairs :
            /\ FieldBytes(m, p[1], p[2]) \subseteq DOMAIN ZeroBlock(m)
            /\ FieldBytes(m, p[1], p[2]) \cap HandleBytes = {}
            /\ \A q \in pairs :
                 p # q => FieldBytes(m, p[1], p[2]) \cap FieldBytes(m, q[1], q[2]) = {}
       /\ \A p \in pairs :
            LET mem == put_field_data(ZeroBlock(m), m, p[1], p[2], 1)
            IN /\ get_field_data(mem, m, p[1], p[2]) = [k \in 1..m[p[1]].m_size |-> 1]
               /\ \A q \in pairs \ {p} :
                    get_field_data(mem, m, q[1], q[2]) = [k \in 1..m[q[1]].m_size |-> 0]
               /\ \A a \in HandleBytes : mem[a] = 0

\* A bucket whose two last fields take 12 and 16 bytes in a slot.
C26_Witness ==
  /\ op.name = "declare_bucket"
  /\ err = "none"
  /\ ret # NULL
  /\ ret \in ListedIn(lists)
  /\ heap[ret].field_map[NumFields - 1].m_size = 12
  /\ heap[ret].field_map[NumFields].m_size = 16

\* The restriction of the field that comes first in key order among those
\* bound to the rank and to a part of the key.
FirstMatching(field, rank, parts) ==
  CHOOSE x \in Matching(field, rank, parts) :
    \A y \in Matching(field, rank, parts) : x.key[2] <= y.key[2]

\* The slot size the claim gives the field in a family of the rank and parts.
ResolvedSize(field, rank, parts) ==
  IF Matching(field, rank, parts) = {} THEN 0
  ELSE field.stride_of *
         (IF field.field_rank # 0 THEN FirstMatching(field, rank, parts).stride ELSE 1)

RECURSIVE ResolvedBase(_, _, _, _)
ResolvedBase(fs, f, rank, parts) ==
  IF f = 1 THEN RoundUp16(sizeof_entity_ptr * bucket_capacity)
  ELSE ResolvedBase(fs, f - 1, rank, parts)
         + RoundUp16(ResolvedSize(fs[f - 1], rank, parts) * bucket_capacity)

\* C27: restriction resolution. When the field map of a new family is
\* resolved, the resolution fails exactly if the restrictions of some field
\* that are bound to the family's rank and to a part of its key disagree,
\* whatever the restrictions bound to another rank or to a part outside the
\* key are; otherwise every field gets the slot size of the first such
\* restriction in key order, or zero if it has none, and in both cases a
\* base after the columns of the fields before it.
C27_RestrictionResolution ==
  (op.name = "new_field_map") =>
    IF \E f \in DOMAIN fields : Conflict(fields[f], op.rank, op.parts)
    THEN err = "runtime_error"
    ELSE /\ err = "none"
         /\ Len(Logged(log, "dimension")) = NumFields
         /\ \A f \in 1..NumFields :
              LET ev == Logged(log, "dimension")[f]
              IN /\ ev.i = f
                 /\ ev.sb = ResolvedSize(fields[f], op.rank, op.parts)
                 /\ ev.si = ResolvedBase(fields, f, op.rank, op.parts)

\* The first field has a restriction of stride 4 bound to the rank and a part
\* of the key, one of stride 3 bound to another rank and to the same part,
\* and one of stride 3 bound to the rank and a part outside the key; its
\* slot takes 16 bytes. The second field has no restriction for the family,
\* takes no bytes and has its base after the first field's column.
C27_Witness ==
  /\ op.name = "new_field_map"
  /\ err = "none"
  /\ op.rank = 0
  /\ \E x, y, z \in Range(fields[1].restrictions) :
       /\ x.key[1] = op.rank /\ x.key[2] \in Range(op.parts) /\ x.stride = 4
       /\ y.key[1] # op.rank /\ y.key[2] = x.key[2] /\ y.stride = 3
       /\ z.key[1] = op.rank /\ z.key[2] \notin Range(op.parts) /\ z.stride = 3
  /\ Logged(log, "dimension")[1].sb = 16
  /\ Logged(log, "dimension")[2].sb = 0
  /\ Logged(log, "dimension")[2].si = Logged(log, "dimension")[1].si + 32

\* C28: the frame of remove_entity( k , i ). With last the last bucket of
\* k's family and ls its last live slot: of the slots of the buckets still
\* listed only (k, i) and (last, ls) can differ from before, in handle or field
\* data; every bucket of another family or rank is as before and at the
\* same place of its list; no back-reference changes except those of the
\* removed entity, which its caller drops, and of the entity moved from
\* (last, ls), the only one the call re-assigns; every bucket other than
\* last keeps its size and last, if still listed, has one entity less.
C28_RemoveFrame ==
  [][ op'.name = "remove_entity" =>
        LET k       == op'.b
            i       == op'.i
            last    == last_bucket_in_family(Current, k)
            ls      == heap[last].size - 1
            removed == heap[k].ent[i]
            moved   == heap[last].ent[ls]
            reset   == Logged(log', "change_entity_bucket")
        IN /\ \A b \in ListedIn(lists) \cap ListedIn(lists') : \A j \in Slots :
                (<<b, j>> # <<k, i>> /\ <<b, j>> # <<last, ls>>) =>
                   /\ heap'[b].ent[j] = heap[b].ent[j]
                   /\ heap'[b].data[j] = heap[b].data[j]
           /\ \A b \in ListedIn(lists) :
                ~SameFamily(heap, b, k) =>
                   /\ heap'[b] = heap[b]
                   /\ b \in ListedIn(lists')
           /\ \A r \in Ranks \ {heap[k].rank} : lists'[r] = lists[r]
           /\ ListedIn(lists') \subseteq ListedIn(lists)
           /\ ListedIn(lists) \ ListedIn(lists') \subseteq {last}
           /\ \A e \in Entities \ {removed, moved} :
                bkt'[e] = bkt[e] /\ ord'[e] = ord[e]
           /\ \A n \in DOMAIN reset : reset[n].e = moved /\ moved # removed
           /\ \A b \in ListedIn(lists) \ {last} : heap'[b].size = heap[b].size
           /\ last \in ListedIn(lists') => heap'[last].size = heap[last].size - 1 ]_vars

\* An entity was removed from a full bucket that is not the last of its
\* family and the bucket is full again, while another family has a bucket.
C28_Witness ==
  /\ op.name = "remove_entity"
  /\ err = "none"
  /\ Len(Logged(log, "copy_fields")) = 1
  /\ Logged(log, "copy_fields")[1].sb # op.b
  /\ heap[op.b].size = bucket_capacity
  /\ \E b \in ListedIn(lists) : ~SameFamily(heap, b, op.b)

\* The positions of the log at which the scan of a resort is at a slot, and
\* the number of entries of one kind logged from position p up to the next
\* slot of the scan.
ScanPositions(lg) == { p \in DOMAIN lg : lg[p].ev = "scan" }

DuringSlot(lg, p, name) ==
  Cardinality({ q \in DOMAIN lg :
                  /\ q > p
                  /\ lg[q].ev = name
                  /\ \A x \in ScanPositions(lg) : x > p => q < x })

\* The live slots of the family's listed buckets.
LiveSlots(h, l, rank, parts) ==
  { <<b, i>> \in FamilyBuckets(h, l, rank, parts) \X Slots : i < h[b].size }

\* C29: resort move bound. In a resort, while the scan is at one slot at
\* most two slots' field data are copied and at most two back-references
\* are assigned, so for a family with n entities at most 2n of each; and
\* the scan of a family is at every live slot of the family once and at
\* no other slot.
C29_ResortMoveBound ==
  (op.name = "resort" /\ err = "none") =>
    /\ \A p \in ScanPositions(log) :
         /\ DuringSlot(log, p, "copy_fields") <= 2
         /\ DuringSlot(log, p, "change_entity_bucket") <= 2
    /\ \A p \in DOMAIN log :
         log[p].ev \in {"copy_fields", "change_entity_bucket"} =>
           \E x \in ScanPositions(log) : x < p
    /\ \A f \in Families(heap, lists) :
         LET live  == LiveSlots(heap, lists, f[1], f[2])
             at(p) == <<log[p].b, log[p].i>>
             scans == { p \in ScanPositions(log) : at(p) \in live }
             n     == Cardinality(live)
         IN /\ \A s \in live : Cardinality({ p \in scans : at(p) = s }) = 1
            /\ Cardinality({ p \in DOMAIN log :
                   /\ log[p].ev = "copy_fields"
                   /\ \E x \in scans : x < p /\ \A y \in ScanPositions(log) : ~(x < y /\ y < p) })
                 <= 2 * n
            /\ Cardinality({ p \in DOMAIN log :
                   /\ log[p].ev = "change_entity_bucket"
                   /\ \E x \in scans : x < p /\ \A y \in ScanPositions(log) : ~(x < y /\ y < p) })
                 <= 2 * n
    /\ \A p \in ScanPositions(log) :
         /\ log[p].b \in ListedIn(lists)
         /\ log[p].i < heap[log[p].b].size

\* A resort that copied two slots' field data while at one slot and
\* copied at least three times in all.
C29_Witness ==
  /\ op.name = "resort"
  /\ err = "none"
  /\ \E p \in ScanPositions(log) :
       /\ DuringSlot(log, p, "copy_fields") = 2
       /\ DuringSlot(log, p, "change_entity_bucket") = 2
  /\ Len(Logged(log, "copy_fields")) >= 3

\* Family g has a bucket listed before a bucket of family f.
ListedBefore(h, l, g, f) ==
  \/ g[1] < f[1]
  \/ /\ g[1] = f[1]
     /\ \E p, q \in 1..Len(l[f[1]]) :
          /\ p < q
          /\ KeyParts(h[l[f[1]][p]].key) = g[2]
          /\ KeyParts(h[l[f[1]][q]].key) = f[2]

SlotEvents == {"copy_fields", "replace_entity", "change_entity_bucket", "scan",
               "decrement_size", "increment_size"}

C31_NilBucket ==
  [][ /\ (op'.name = "declare_nil_bucket" /\ m_nil_bucket = NULL /\ err' = "none") =>
           /\ m_nil_bucket' # NULL
           /\ m_nil_bucket' \notin Addrs
           /\ heap'[m_nil_bucket'].alloc
           /\ heap'[m_nil_bucket'].capacity = 0
           /\ heap'[m_nil_bucket'].size = 0
           /\ KeyParts(heap'[m_nil_bucket'].key) = <<>>
           /\ KeyCount(heap'[m_nil_bucket'].key) = 0
           /\ first_bucket_in_family([heap |-> heap'], m_nil_bucket') = m_nil_bucket'
           /\ last_bucket_in_family([heap |-> heap'], m_nil_bucket') = m_nil_bucket'
           /\ Len(Logged(log', "new")) = 1
           /\ \A a \in Addrs : heap'[a] = heap[a]
           /\ lists' = lists /\ bkt' = bkt /\ ord' = ord
      /\ (op'.name = "declare_nil_bucket" /\ m_nil_bucket # NULL) =>
           /\ m_nil_bucket' = m_nil_bucket
           /\ heap' = heap /\ lists' = lists /\ bkt' = bkt /\ ord' = ord
           /\ log' = <<>> /\ err' = "none"
      /\ m_nil_bucket' \notin ListedIn(lists')
      /\ op'.name \in {"insert", "declare_bucket", "remove_entity", "resort"} =>
           /\ m_nil_bucket' = m_nil_bucket
           /\ heap'[NilBlock] = heap[NilBlock]
           /\ \A e \in Entities : bkt'[e] # NilBlock ]_vars

\* The nil bucket exists, a second declare_nil_bucket has been called and
\* the ranks' lists hold buckets with entities.
C31_Witness ==
  /\ op.name = "declare_nil_bucket"
  /\ err = "none"
  /\ log = <<>>
  /\ m_nil_bucket # NULL
  /\ heap[m_nil_bucket].alloc
  /\ \A e \in Entities : bkt[e] # NULL

\* The positions of the rank's list that hold a bucket of the family.
FamilyPositions(h, l, rank, parts) ==
  { p \in 1..Len(l[rank]) : KeyParts(h[l[rank][p]].key) = parts }

\* C32: contiguous family sequences. The k listed buckets of a family are
\* at consecutive positions of their rank's list and their family counts
\* are 0, 1, ..., k-1 in list order.
C32_AsStated ==
  \A f \in Families(heap, lists) :
    LET pos   == FamilyPositions(heap, lists, f[1], f[2])
        start == CHOOSE p \in pos : \A q \in pos : p <= q
    IN /\ pos = start..(start + Cardinality(pos) - 1)
       /\ \A p \in pos : KeyCount(heap[lists[f[1]][p]].key) = p - start

\* C33: the frame of a resort. The lists hold the buckets they held, every
\* bucket has the size it had, every entity is in a bucket of the family it
\* was in, and every family has the live entities it had, each once.
C33_ResortPermutes ==
  [][ op'.name = "resort" =>
        /\ ListedIn(lists') = ListedIn(lists)
        /\ \A b \in ListedIn(lists) :
             /\ heap'[b].size = heap[b].size
             /\ heap'[b].rank = heap[b].rank
             /\ heap'[b].key = heap[b].key
        /\ \A e \in Entities :
             IF bkt[e] = NULL THEN bkt'[e] = NULL
             ELSE /\ bkt'[e] \in ListedIn(lists')
                  /\ SameFamily(heap, bkt[e], bkt'[e])
        /\ \A f \in Families(heap, lists) :
             LET before == FamilyLive(heap, lists, f[1], f[2])
                 after  == FamilyLive(heap', lists', f[1], f[2])
             IN /\ Range(after) = Range(before)
                /\ Len(after) = Len(before)
                /\ Injective(after) ]_vars

\* A resort has moved an entity to another bucket of its family while
\* another family has a bucket.
C33_Witness ==
  /\ op.name = "resort"
  /\ err = "none"
  /\ \E x \in DOMAIN log :
       /\ log[x].ev = "change_entity_bucket"
       /\ log[x].b \in ListedIn(lists)
       /\ bkt[log[x].e] = log[x].b
       /\ \E y \in DOMAIN log :
            /\ y < x
            /\ log[y].ev = "copy_fields"
            /\ log[y].sb \in ListedIn(lists) \ {log[x].b}
  /\ Cardinality(Families(heap, lists)) >= 2

\* C34: vacancy returns home. When the scan of a family ends, the vacant
\* slot is the one chosen before the scan: slot size of the family's last
\* bucket, or slot 0 of the scratch bucket declared for the family. A
\* scratch bucket is destroyed with size 0 and with no back-reference
\* naming it, and its destruction does not throw.
C34_VacancyReturnsHome ==
  (op.name = "resort") =>
    /\ \A x \in DOMAIN log :
         log[x].ev = "scan_end" =>
           /\ log[x].b = log[x].sb
           /\ log[x].i = log[x].si
           /\ IF log[x].b \in ListedIn(lists)
              THEN /\ log[x].i = heap[log[x].b].size
                   /\ last_bucket_in_family(Current, log[x].b) = log[x].b
                   /\ heap[log[x].b].ent[log[x].i] = NULL
              ELSE /\ log[x].i = 0
                   /\ \E y, z \in DOMAIN log :
                        /\ y < x /\ x < z
                        /\ log[y].ev = "new" /\ log[y].b = log[x].b
                        /\ log[z].ev = "free" /\ log[z].b = log[x].b
    /\ \A y \in DOMAIN log :
         log[y].ev = "new" =>
           /\ \A e \in Entities : bkt[e] # log[y].b
           /\ \A z \in DOMAIN log :
                log[z].ev \in {"increment_size", "decrement_size"} => log[z].b # log[y].b
           /\ err = "none" => \E z \in DOMAIN log :
                                 z > y /\ log[z].ev = "free" /\ log[z].b = log[y].b
    /\ err # "logic_error"

\* A resort has moved entities through the scratch bucket of a full family
\* and has destroyed the scratch bucket.
C34_Witness ==
  /\ op.name = "resort"
  /\ err = "none"
  /\ \E y, z \in DOMAIN log :
       /\ log[y].ev = "new"
       /\ log[z].ev = "free" /\ log[z].b = log[y].b
       /\ \E x \in DOMAIN log :
            /\ y < x /\ x < z
            /\ log[x].ev = "copy_fields" /\ log[x].b = log[y].b

\* C35: what the relocation hook finds. Whenever remove_entity or a resort
\* invokes the hook for an entity, the entity's back-reference names a slot
\* that holds the entity's handle and the entity's field data; in a resort
\* the slot is the one the entity has when the resort returns, in a family
\* that is then in increasing order.
C35_HookSeesEntityInPlace ==
  Relocating =>
    \A x \in DOMAIN log :
      log[x].ev = "propagate_relocation" =>
        /\ log[x].b # NULL
        /\ log[x].sb = log[x].e
        /\ log[x].si = log[x].e
        /\ op.name = "resort" =>
             /\ bkt[log[x].e] = log[x].b
             /\ ord[log[x].e] = log[x].i
             /\ err = "none" =>
                  StrictlyIncreasing(FamilyLive(heap, lists, heap[log[x].b].rank,
                                                KeyParts(heap[log[x].b].key)))

\* A resort has moved an entity twice, to the vacant slot and then to its
\* sorted slot, and has invoked the hook for it.
C35_Witness ==
  /\ op.name = "resort"
  /\ err = "none"
  /\ \E x \in DOMAIN log :
       /\ log[x].ev = "propagate_relocation"
       /\ Cardinality({ y \in DOMAIN log : /\ log[y].ev = "change_entity_bucket"
                                            /\ log[y].e = log[x].e }) = 2

\* C36: the hooks of one resort. The hook is invoked at most once for an
\* entity, however often the entity was moved; the entities of one family
\* are hooked in increasing order; no entity whose sorted slot comes before
\* the first slot of its family that did not hold its sorted occupant is
\* hooked; and a family whose slots all held their sorted occupants has no
\* entity hooked, whatever the other families needed.
C36_HooksOfResort ==
  [][ (op'.name = "resort" /\ err' = "none") =>
        /\ \A x, y \in DOMAIN log' :
             ( /\ log'[x].ev = "propagate_relocation"
               /\ log'[y].ev = "propagate_relocation"
               /\ log'[x].e = log'[y].e ) => x = y
        /\ \A f \in Families(heap, lists) :
             LET before == FamilyLive(heap, lists, f[1], f[2])
                 after  == FamilyLive(heap', lists', f[1], f[2])
                 first  == FirstMismatch(before, after)
                 hooks  == SelectSeq(log', LAMBDA x : /\ x.ev = "propagate_relocation"
                                                      /\ x.e \in Range(before))
             IN /\ StrictlyIncreasing([j \in 1..Len(hooks) |-> hooks[j].e])
                /\ \A j \in 1..Len(hooks) : \A p \in 1..(first - 1) :
                     after[p] # hooks[j].e
                /\ before = after => hooks = <<>> ]_vars

\* A resort has moved an entity twice and hooked it, and has hooked no
\* entity of another family, which has an entity.
C36_Witness ==
  /\ op.name = "resort"
  /\ err = "none"
  /\ \E x \in DOMAIN log :
       /\ log[x].ev = "propagate_relocation"
       /\ Cardinality({ y \in DOMAIN log : /\ log[y].ev = "change_entity_bucket"
                                            /\ log[y].e = log[x].e }) = 2
  /\ \E e \in Entities :
       /\ bkt[e] # NULL
       /\ \A x \in DOMAIN log : log[x].ev = "propagate_relocation" => log[x].e # e
       /\ \A x \in DOMAIN log :
            log[x].ev = "propagate_relocation" => ~SameFamily(heap, bkt[e], log[x].b)

\* C37: declare_bucket, alone or for an insertion, for a family whose last
\* listed bucket is empty throws logic_error, returns no bucket and leaves
\* the lists and the buckets as they were.
C37_AsStated ==
  [][ ( /\ Declared(op'.name)
        /\ FamilyBuckets(heap, lists, op'.rank, op'.parts) # {}
        /\ heap[FamilyLast(heap, lists, op'.rank, op'.parts)].size = 0 )
      => /\ err' = "logic_error"
         /\ ret' = NULL
         /\ lists' = lists
         /\ heap' = heap ]_vars

\* C38: the relocation hook. For an entity x of rank etype the hook calls
\* set_field_relations once for every relation of x to an entity of another
\* rank, in the order of the relations: with x first and the related entity
\* second if the related entity's rank is lower, with the related entity
\* first and x second if it is higher, each with the relation's identifier;
\* relations to entities of x's rank cause no call.
C38_HookVisitsRelations ==
  (op.name = "internal_propagate_relocation") =>
    LET x       == op.e
        etype   == op.rank
        others  == SelectSeq(op.relations, LAMBDA r : r.entity_rank # etype)
        calls   == Logged(log, "set_field_relations")
    IN /\ log = calls
       /\ Len(calls) = Len(others)
       /\ \A n \in 1..Len(others) :
            /\ calls[n].i = others[n].identifier
            /\ IF others[n].entity_rank < etype
               THEN calls[n].e = x /\ calls[n].sb = others[n].entity
               ELSE calls[n].e = others[n].entity /\ calls[n].sb = x

\* The hook has run for an entity with a relation to its own rank between
\* a relation to a higher and a relation to a lower rank.
C38_Witness ==
  /\ op.name = "internal_propagate_relocation"
  /\ Len(op.relations) = 3
  /\ op.relations[1].entity_rank > op.rank
  /\ op.relations[2].entity_rank = op.rank
  /\ op.relations[3].entity_rank < op.rank
  /\ Len(log) = 2
  /\ log[1].sb = op.e
  /\ log[2].e = op.e

====
